---------------------------- MODULE Spec2Model ----------------------------
(***************************************************************************)
(* Model of valence's wire codec (src/src/protocol.rs): the Encode/Decode  *)
(* implementations for the primitive types, Option, BoundedInt,            *)
(* BoundedString, BoundedArray, Vec, [T; N] and String, and the shared     *)
(* helpers encode_array_bounded, decode_array_bounded,                     *)
(* encode_string_bounded and decode_string_bounded.                        *)
(*                                                                         *)
(* A byte is an integer in 0..255, a stream a sequence of bytes.  A usize  *)
(* (64-bit target) is four 16-bit limbs, most significant first, because   *)
(* TLC's integers are 32 bits wide; a u64 value is held the same way.      *)
(* A String is its sequence of Unicode scalar values; its bytes are        *)
(* computed by the UTF-8 encoding.  An Option is <<>> (None) or <<v>>.     *)
(*                                                                         *)
(* An encode returns [st, e, out]: out is what the call wrote to the sink, *)
(* also when it failed part-way.  A decode returns [st, e, val, rest]:     *)
(* val is <<v>> on success and <<>> otherwise, rest the unread suffix.     *)
(* st is "ok", "err" (an anyhow::Error, e its cause) or "panic" (assert!). *)
(* The sink is an in-memory buffer: its writes do not fail.                *)
(***************************************************************************)
EXTENDS Integers, Sequences, FiniteSets, TLC

VARIABLES pc, call, w, r, log, got, loop

vars == <<pc, call, w, r, log, got, loop>>

-----------------------------------------------------------------------------
(* usize / u64 arithmetic on 16-bit limbs *)

ToU(n) == <<0, 0, n \div 65536, n % 65536>>

USIZE_MAX == <<65535, 65535, 65535, 65535>>

I32_MAX_U == <<0, 0, 32767, 65535>>

ULt(a, b) == \E i \in 1..4 : a[i] < b[i] /\ \A j \in 1..(i - 1) : a[j] = b[j]

ULe(a, b) == a = b \/ ULt(a, b)

\* (min..=max).contains(&x)
RangeContains(min, max, x) == ULe(min, x) /\ ULe(x, max)

\* x as i32, for x <= i32::MAX
AsI32(x) == x[3] * 65536 + x[4]

\* usize::saturating_mul(x, 4)
saturating_mul4(x) ==
    IF x[1] >= 16384 THEN USIZE_MAX
    ELSE LET d == x[4] * 4
             c == x[3] * 4 + d \div 65536
             b == x[2] * 4 + c \div 65536
             a == x[1] * 4 + b \div 65536
         IN <<a, b % 65536, c % 65536, d % 65536>>

-----------------------------------------------------------------------------
(* results *)

EOk(bytes) == [st |-> "ok", e |-> "none", out |-> bytes]

EErr(kind, bytes) == [st |-> "err", e |-> kind, out |-> bytes]

EPanic == [st |-> "panic", e |-> "assert", out |-> <<>>]

DOk(v, rest) == [st |-> "ok", e |-> "none", val |-> <<v>>, rest |-> rest]

DErr(kind, rest) == [st |-> "err", e |-> kind, val |-> <<>>, rest |-> rest]

DPanic(rest) == [st |-> "panic", e |-> "assert", val |-> <<>>, rest |-> rest]

Drop(s, n) == SubSeq(s, n + 1, Len(s))

Take(s, n) == SubSeq(s, 1, n)

-----------------------------------------------------------------------------
(* byteorder: big-endian fixed-width integers *)

Pow256(k) == <<1, 256, 65536, 16777216>>[k + 1]

\* write_uN / write_iN::<BigEndian>, N = 8 * width, width <= 4
BigEndianBytes(v, width) ==
    [i \in 1..width |-> (v \div Pow256(width - i)) % 256]

\* the value of width <= 4 big-endian bytes, two's complement when signed
BigEndianValue(bs, signed) ==
    LET width == Len(bs)
        top == IF signed /\ bs[1] >= 128 THEN bs[1] - 256 ELSE bs[1]
        F[i \in 1..width] ==
            IF i = 1 THEN top * Pow256(width - 1)
            ELSE F[i - 1] + bs[i] * Pow256(width - i)
    IN F[width]

\* write_u64::<BigEndian> of a u64 held as limbs
BigEndianBytes64(x) ==
    [i \in 1..8 |-> IF i % 2 = 1 THEN x[(i + 1) \div 2] \div 256
                    ELSE x[i \div 2] % 256]

BigEndianValue64(bs) == [i \in 1..4 |-> bs[2 * i - 1] * 256 + bs[2 * i]]

-----------------------------------------------------------------------------
(* crate::var_int::VarInt: a signed 32-bit integer in 1 to 5 bytes, seven    *)
(* bits a byte, least significant group first, the top bit of a byte saying  *)
(* that another byte follows.                                                *)

RECURSIVE VarIntBytes(_)

\* the bytes of a non-negative i32
VarIntBytes(n) ==
    IF n < 128 THEN <<n>> ELSE <<(n % 128) + 128>> \o VarIntBytes(n \div 128)

VarInt_encode(n) == EOk(VarIntBytes(n))

RECURSIVE VarIntRead(_, _, _)

\* the fifth byte's group is shifted by 28: its low four bits are bits 28..31
VarIntRead(bs, i, acc) ==
    IF i = 5 THEN DErr("malformed", bs)
    ELSE IF bs = <<>> THEN DErr("truncated", bs)
    ELSE LET b == bs[1]
             g == b % 128
             t == g % 16
             part == CASE i = 0 -> g
                       [] i = 1 -> g * 128
                       [] i = 2 -> g * 16384
                       [] i = 3 -> g * 2097152
                       [] OTHER -> (IF t >= 8 THEN t - 16 ELSE t) * 268435456
         IN IF b < 128 THEN DOk(acc + part, Tail(bs))
            ELSE VarIntRead(Tail(bs), i + 1, acc + part)

VarInt_decode(bs) == VarIntRead(bs, 0, 0)

-----------------------------------------------------------------------------
(* str: UTF-8 *)

\* the UTF-8 encoding of one Unicode scalar value
Utf8Char(c) ==
    IF c < 128 THEN <<c>>
    ELSE IF c < 2048 THEN <<192 + c \div 64, 128 + (c % 64)>>
    ELSE IF c < 65536
         THEN <<224 + c \div 4096, 128 + ((c \div 64) % 64), 128 + (c % 64)>>
    ELSE <<240 + c \div 262144, 128 + ((c \div 4096) % 64),
           128 + ((c \div 64) % 64), 128 + (c % 64)>>

RECURSIVE as_bytes(_)

\* str::as_bytes
as_bytes(s) == IF s = <<>> THEN <<>> ELSE Utf8Char(Head(s)) \o as_bytes(Tail(s))

\* str::chars().count()
char_count(s) == Len(s)

IsCont(b) == b >= 128 /\ b <= 191

RECURSIVE Utf8Scan(_, _)

\* String::from_utf8: the scalar values of a valid UTF-8 byte sequence
Utf8Scan(bs, acc) ==
    IF bs = <<>> THEN [ok |-> TRUE, chars |-> acc]
    ELSE LET b1 == bs[1]
             n == Len(bs)
             bad == [ok |-> FALSE, chars |-> <<>>]
         IN IF b1 < 128 THEN Utf8Scan(Tail(bs), Append(acc, b1))
            ELSE IF b1 >= 194 /\ b1 <= 223 THEN
                IF n >= 2 /\ IsCont(bs[2])
                THEN Utf8Scan(Drop(bs, 2),
                              Append(acc, (b1 - 192) * 64 + (bs[2] - 128)))
                ELSE bad
            ELSE IF b1 >= 224 /\ b1 <= 239 THEN
                IF /\ n >= 3
                   /\ IsCont(bs[2])
                   /\ IsCont(bs[3])
                   /\ (b1 = 224 => bs[2] >= 160)
                   /\ (b1 = 237 => bs[2] <= 159)
                THEN Utf8Scan(Drop(bs, 3),
                              Append(acc, (b1 - 224) * 4096 + (bs[2] - 128) * 64
                                          + (bs[3] - 128)))
                ELSE bad
            ELSE IF b1 >= 240 /\ b1 <= 244 THEN
                IF /\ n >= 4
                   /\ IsCont(bs[2])
                   /\ IsCont(bs[3])
                   /\ IsCont(bs[4])
                   /\ (b1 = 240 => bs[2] >= 144)
                   /\ (b1 = 244 => bs[2] <= 143)
                THEN Utf8Scan(Drop(bs, 4),
                              Append(acc, (b1 - 240) * 262144
                                          + (bs[2] - 128) * 4096
                                          + (bs[3] - 128) * 64 + (bs[4] - 128)))
                ELSE bad
            ELSE bad

from_utf8(bs) == Utf8Scan(bs, <<>>)

-----------------------------------------------------------------------------
(* the wire types *)

TUnit == [k |-> "unit"]

TBool == [k |-> "bool"]

TInt(signed, width) == [k |-> "int", signed |-> signed, width |-> width]

TU64 == [k |-> "u64"]

TOption(t) == [k |-> "option", t |-> t]

TBoundedInt(t, min, max) == [k |-> "bounded_int", t |-> t, min |-> min, max |-> max]

TString == [k |-> "string"]

TBoundedString(min, max) == [k |-> "bounded_string", min |-> ToU(min), max |-> ToU(max)]

TVec(t) == [k |-> "vec", t |-> t]

TArray(t, n) == [k |-> "array", t |-> t, n |-> n]

TBoundedArray(t, min, max) ==
    [k |-> "bounded_array", t |-> t, min |-> ToU(min), max |-> ToU(max)]

RECURSIVE size_of(_)

\* mem::size_of::<T>() on a 64-bit target
size_of(ty) ==
    CASE ty.k = "unit" -> 0
      [] ty.k = "bool" -> 1
      [] ty.k = "int" -> ty.width
      [] ty.k = "u64" -> 8
      [] ty.k = "bounded_int" -> size_of(ty.t)
      [] ty.k = "option" ->
            IF ty.t.k \in {"unit", "bool"} THEN 1 ELSE 2 * size_of(ty.t)
      [] ty.k = "array" -> ty.n * size_of(ty.t)
      [] OTHER -> 24

\* the maximum number of bytes in a single packet
MAX_PACKET_SIZE == 2097151

-----------------------------------------------------------------------------
(* the Encode and Decode implementations *)

RECURSIVE Encode(_, _), Decode(_, _)

\* impl Encode for ()
encode_unit(v) == EOk(<<>>)

\* impl Decode for ()
decode_unit(bs) == DOk(<<>>, bs)

\* impl Encode for bool: w.write_u8(*self as u8)
encode_bool(v) == EOk(<<IF v THEN 1 ELSE 0>>)

\* a reader that takes every non-zero byte for true
decode_bool_lenient(bs) ==
    IF bs = <<>> THEN DErr("truncated", bs) ELSE DOk(bs[1] # 0, Tail(bs))

\* impl Decode for bool
decode_bool(bs) ==
    IF bs = <<>> THEN DErr("truncated", bs)
    ELSE IF ~(bs[1] < 2) THEN DErr("malformed", Tail(bs))
    ELSE DOk(bs[1] = 1, Tail(bs))

\* a writer that sends the least significant byte first
encode_int_le(ty, v) ==
    EOk([i \in 1..ty.width |-> (v \div Pow256(i - 1)) % 256])

\* impl Encode for u8, i8, u16, i16, u32, i32
encode_int(ty, v) == EOk(BigEndianBytes(v, ty.width))

\* impl Decode for u8, i8, u16, i16, u32, i32
decode_int(ty, bs) ==
    IF Len(bs) < ty.width THEN DErr("truncated", bs)
    ELSE DOk(BigEndianValue(Take(bs, ty.width), ty.signed), Drop(bs, ty.width))

\* impl Encode for u64
encode_u64(v) == EOk(BigEndianBytes64(v))

\* impl Decode for u64
decode_u64(bs) ==
    IF Len(bs) < 8 THEN DErr("truncated", bs)
    ELSE DOk(BigEndianValue64(Take(bs, 8)), Drop(bs, 8))

\* a.and_then(|_| b): what b returned after a wrote its bytes
and_then(a, b) == IF a.st # "ok" THEN a ELSE [b EXCEPT !.out = a.out \o b.out]

\* a writer that sends the flag only with a payload
encode_option_flagless(ty, v) ==
    IF Len(v) = 1 THEN and_then(encode_bool(TRUE), Encode(ty.t, v[1]))
    ELSE EOk(<<>>)

\* impl Encode for Option<T>
encode_option(ty, v) ==
    IF Len(v) = 1 THEN and_then(encode_bool(TRUE), Encode(ty.t, v[1]))
    ELSE encode_bool(FALSE)

\* Ok(Some(T::decode(r)?))
some(t) == IF t.st # "ok" THEN t ELSE DOk(<<t.val[1]>>, t.rest)

\* impl Decode for Option<T>: flag is what bool::decode(r) returned
decode_option_payload(ty, flag) ==
    IF flag.st # "ok" THEN flag
    ELSE IF flag.val[1] THEN some(Decode(ty.t, flag.rest))
    ELSE DOk(<<>>, flag.rest)

decode_option(ty, bs) == decode_option_payload(ty, decode_bool(bs))

\* impl Encode for BoundedInt<T, MIN, MAX>
encode_BoundedInt(ty, v) ==
    IF ~(ty.min <= v /\ v <= ty.max) THEN EErr("bounds", <<>>)
    ELSE Encode(ty.t, v)

\* a reader that clamps what it read into [MIN, MAX]
decode_BoundedInt_clamp(ty, res) ==
    IF res.st # "ok" THEN res
    ELSE IF res.val[1] < ty.min THEN DOk(ty.min, res.rest)
    ELSE IF res.val[1] > ty.max THEN DOk(ty.max, res.rest)
    ELSE DOk(res.val[1], res.rest)

\* impl Decode for BoundedInt<T, MIN, MAX>: res is what T::decode(r) returned
decode_BoundedInt_check(ty, res) ==
    IF res.st # "ok" THEN res
    ELSE IF ~(ty.min <= res.val[1] /\ res.val[1] <= ty.max)
         THEN DErr("bounds", res.rest)
    ELSE DOk(res.val[1], res.rest)

decode_BoundedInt(ty, bs) == decode_BoundedInt_check(ty, Decode(ty.t, bs))

\* a check that takes max for an exclusive bound
encode_array_len_exclusive(len, min, max) ==
    IF ~ULe(min, max) THEN EPanic
    ELSE IF ~(ULe(min, len) /\ ULt(len, max)) THEN EErr("bounds", <<>>)
    ELSE IF ~ULe(len, I32_MAX_U) THEN EErr("overflow", <<>>)
    ELSE VarInt_encode(AsI32(len))

\* encode_array_bounded up to the length prefix, for a slice of len elements
encode_array_len(len, min, max) ==
    IF ~ULe(min, max) THEN EPanic
    ELSE IF ~RangeContains(min, max, len) THEN EErr("bounds", <<>>)
    ELSE IF ~ULe(len, I32_MAX_U) THEN EErr("overflow", <<>>)
    ELSE VarInt_encode(AsI32(len))

\* one turn of encode_array_bounded's loop: t.encode(w)? after out was written
encode_element(t, x, out) == and_then(EOk(out), Encode(t, x))

RECURSIVE encode_elements(_, _, _, _)

\* for t in s { t.encode(w)?; } from element i on; acc is the result so far
encode_elements(t, s, i, acc) ==
    IF acc.st # "ok" \/ i > Len(s) THEN acc
    ELSE encode_elements(t, s, i + 1, encode_element(t, s[i], acc.out))

encode_array_bounded(t, s, min, max) ==
    encode_elements(t, s, 1, encode_array_len(ToU(Len(s)), min, max))

\* a reservation of whatever the prefix claims
capacity_unbounded(t, len) == len

\* (MAX_PACKET_SIZE as usize / mem::size_of::<T>().max(1)).min(len as usize)
capacity(t, len) ==
    IF MAX_PACKET_SIZE \div (IF size_of(t) > 1 THEN size_of(t) ELSE 1) < len
    THEN MAX_PACKET_SIZE \div (IF size_of(t) > 1 THEN size_of(t) ELSE 1)
    ELSE len

\* decode_array_bounded's check of len, which is what VarInt::decode(r) returned
decode_array_check(t, min, max, len) ==
    IF len.st # "ok"
    THEN [st |-> len.st, e |-> len.e, len |-> 0, cap |-> 0, rest |-> len.rest]
    ELSE IF ~(len.val[1] >= 0 /\ RangeContains(min, max, ToU(len.val[1])))
         THEN [st |-> "err", e |-> "bounds", len |-> len.val[1], cap |-> 0,
               rest |-> len.rest]
    ELSE [st |-> "ok", e |-> "none", len |-> len.val[1],
          cap |-> capacity(t, len.val[1]), rest |-> len.rest]

\* decode_array_bounded up to Vec::with_capacity(cap)
decode_array_len(t, min, max, bs) ==
    IF ~ULe(min, max)
    THEN [st |-> "panic", e |-> "assert", len |-> 0, cap |-> 0, rest |-> bs]
    ELSE decode_array_check(t, min, max, VarInt_decode(bs))

\* res.push(T::decode(r)?): d is what T::decode(r) returned
push(res, d) == IF d.st # "ok" THEN d ELSE DOk(Append(res, d.val[1]), d.rest)

\* one turn of decode_array_bounded's loop
decode_element(t, bs, res) == push(res, Decode(t, bs))

RECURSIVE decode_elements(_, _, _)

\* for _ in 0..len { res.push(T::decode(r)?); } with n turns left; acc holds the
\* vector and the source so far, or the error that ended the loop
decode_elements(t, n, acc) ==
    IF acc.st # "ok" \/ n = 0 THEN acc
    ELSE decode_elements(t, n - 1, decode_element(t, acc.rest, acc.val[1]))

\* decode_array_bounded from Vec::with_capacity(cap) on
decode_array_loop(t, h) ==
    IF h.st # "ok" THEN [st |-> h.st, e |-> h.e, val |-> <<>>, rest |-> h.rest]
    ELSE decode_elements(t, h.len, DOk(<<>>, h.rest))

decode_array_bounded(t, min, max, bs) ==
    decode_array_loop(t, decode_array_len(t, min, max, bs))

\* a check of the byte length in place of the char count
encode_string_bounded_bytes(s, min, max) ==
    IF ~ULe(min, max) THEN EPanic
    ELSE IF ~RangeContains(min, max, ToU(Len(as_bytes(s)))) THEN EErr("bounds", <<>>)
    ELSE encode_array_bounded(TInt(FALSE, 1), as_bytes(s), ToU(0), USIZE_MAX)

encode_string_bounded(s, min, max) ==
    IF ~ULe(min, max) THEN EPanic
    ELSE IF ~RangeContains(min, max, ToU(char_count(s))) THEN EErr("bounds", <<>>)
    ELSE encode_array_bounded(TInt(FALSE, 1), as_bytes(s), ToU(0), USIZE_MAX)

\* decode_string_bounded's check of the char count of String::from_utf8(bytes)?
decode_string_count(min, max, string, rest) ==
    IF ~string.ok THEN DErr("malformed", rest)
    ELSE IF ~RangeContains(min, max, ToU(char_count(string.chars)))
         THEN DErr("bounds", rest)
    ELSE DOk(string.chars, rest)

\* decode_string_bounded from the bytes decode_array_bounded returned
decode_string_bytes(min, max, bytes) ==
    IF bytes.st # "ok" THEN bytes
    ELSE decode_string_count(min, max, from_utf8(bytes.val[1]), bytes.rest)

decode_string_bounded(min, max, bs) ==
    IF ~ULe(min, max) THEN DPanic(bs)
    ELSE decode_string_bytes(min, max,
             decode_array_bounded(TInt(FALSE, 1), min, saturating_mul4(max), bs))

\* impl Encode for [T; N]
encode_array(ty, v) == encode_array_bounded(ty.t, v, ToU(ty.n), ToU(ty.n))

\* impl Decode for [T; N]
decode_array(ty, bs) == decode_array_bounded(ty.t, ToU(ty.n), ToU(ty.n), bs)

\* T::encode(&self, w), by the type's implementation
Encode(ty, v) ==
    CASE ty.k = "unit" -> encode_unit(v)
      [] ty.k = "bool" -> encode_bool(v)
      [] ty.k = "int" -> encode_int(ty, v)
      [] ty.k = "u64" -> encode_u64(v)
      [] ty.k = "option" -> encode_option(ty, v)
      [] ty.k = "bounded_int" -> encode_BoundedInt(ty, v)
      [] ty.k = "string" -> encode_string_bounded(v, ToU(0), ToU(32767))
      [] ty.k = "bounded_string" -> encode_string_bounded(v, ty.min, ty.max)
      [] ty.k = "vec" -> encode_array_bounded(ty.t, v, ToU(0), USIZE_MAX)
      [] ty.k = "array" -> encode_array(ty, v)
      [] ty.k = "bounded_array" -> encode_array_bounded(ty.t, v, ty.min, ty.max)

\* T::decode(r), by the type's implementation
Decode(ty, bs) ==
    CASE ty.k = "unit" -> decode_unit(bs)
      [] ty.k = "bool" -> decode_bool(bs)
      [] ty.k = "int" -> decode_int(ty, bs)
      [] ty.k = "u64" -> decode_u64(bs)
      [] ty.k = "option" -> decode_option(ty, bs)
      [] ty.k = "bounded_int" -> decode_BoundedInt(ty, bs)
      [] ty.k = "string" -> decode_string_bounded(ToU(0), ToU(32767), bs)
      [] ty.k = "bounded_string" -> decode_string_bounded(ty.min, ty.max, bs)
      [] ty.k = "vec" -> decode_array_bounded(ty.t, ToU(0), USIZE_MAX, bs)
      [] ty.k = "array" -> decode_array(ty, bs)
      [] ty.k = "bounded_array" -> decode_array_bounded(ty.t, ty.min, ty.max, bs)

-----------------------------------------------------------------------------
(* the types and values the operations are called with *)

MaxChars == 4

MaxElems == 6

MaxJunk == 2

MaxItems == 2

U8 == TInt(FALSE, 1)

I8 == TInt(TRUE, 1)

U16 == TInt(FALSE, 2)

I16 == TInt(TRUE, 2)

I32 == TInt(TRUE, 4)

ScalarTypes ==
    << TUnit, TBool, U8, I8, U16, I16, I32, TU64,
       TOption(TUnit), TOption(TBool), TOption(U16),
       TBoundedInt(I8, -5, 5), TBoundedInt(U16, 1, 300), TBoundedInt(I8, 5, 1),
       TBoundedInt(I16, 5, -5),
       TString, TBoundedString(0, 3), TBoundedString(1, 2), TBoundedString(3, 1) >>

ArrayTypes ==
    << TVec(U8), TVec(TU64), TArray(U8, 4), TArray(U16, 2),
       TBoundedArray(U8, 0, 5), TBoundedArray(U8, 1, 5), TBoundedArray(U8, 4, 2),
       TBoundedArray(TBoundedInt(I8, -5, 5), 0, 3),
       TBoundedArray(TOption(TBool), 1, 3) >>

Types == ScalarTypes \o ArrayTypes

\* the first n elements of pool repeated, starting after its k-th
Rot(pool, n, k) == [i \in 1..n |-> pool[((i + k - 1) % Len(pool)) + 1]]

SeqsUpTo(S, n) == UNION {[1..m -> S] : m \in 0..n}

Chars == {97, 233, 8364, 128512}

StringValues ==
    SeqsUpTo(Chars, 2) \cup {[i \in 1..n |-> c] : n \in 0..MaxChars, c \in Chars}

IntValues(ty) ==
    CASE ty = U8 -> {0, 1, 2, 127, 128, 255}
      [] ty = I8 -> {-128, -6, -5, -1, 0, 5, 6, 127}
      [] ty = U16 -> {0, 1, 258, 300, 301, 65535}
      [] ty = I16 -> {-32768, -6, -5, 0, 5, 32767}
      [] ty = I32 -> {-2147483647 - 1, -1, 0, 16909060, 2147483647}

\* the elements the arrays of element type t are built from
Pool(t) ==
    CASE t = U8 -> <<1, 200, 0>>
      [] t = U16 -> <<258, 65535>>
      [] t = TU64 -> << <<1, 2, 3, 258>>, USIZE_MAX >>
      [] t.k = "bounded_int" -> <<1, -5, 9, 5>>
      [] t.k = "option" -> << <<TRUE>>, <<>>, <<FALSE>> >>

RECURSIVE Values(_)

Values(ty) ==
    CASE ty.k = "unit" -> {<<>>}
      [] ty.k = "bool" -> BOOLEAN
      [] ty.k = "int" -> IntValues(ty)
      [] ty.k = "u64" -> {ToU(0), <<1, 2, 3, 258>>, USIZE_MAX}
      [] ty.k = "option" -> {<<>>} \cup {<<v>> : v \in Values(ty.t)}
      [] ty.k = "bounded_int" -> IntValues(ty.t)
      [] ty.k \in {"string", "bounded_string"} -> StringValues
      [] ty.k = "array" ->
            {Rot(Pool(ty.t), ty.n, k) : k \in 0..(Len(Pool(ty.t)) - 1)}
      [] ty.k \in {"vec", "bounded_array"} ->
            {Rot(Pool(ty.t), n, k) : n \in 0..MaxElems,
                                     k \in 0..(Len(Pool(ty.t)) - 1)}

\* what a writer of any of the types may have put on the wire
Encodings ==
    UNION {{Encode(Types[i], v).out : v \in Values(Types[i])} : i \in DOMAIN Types}

Prefixes(bs) == {Take(bs, n) : n \in 0..Len(bs)}

\* length prefixes no honest writer sends: -1, the packet limit and beyond
Hostile ==
    { <<255, 255, 255, 255, 15, 1, 2>>,
      VarIntBytes(10000000) \o [i \in 1..10 |-> 0],
      VarIntBytes(MAX_PACKET_SIZE) \o <<1, 2>>,
      VarIntBytes(MAX_PACKET_SIZE + 1) \o <<1, 2>>,
      VarIntBytes(262143) \o [i \in 1..16 |-> 7],
      VarIntBytes(262144) \o [i \in 1..16 |-> 7],
      <<255, 255, 255, 255, 255, 1>> }

JunkBytes == {0, 1, 2, 3, 128, 195, 255}

\* what may arrive: encodings, truncated encodings, hostile prefixes, junk
Wire ==
    UNION {Prefixes(bs) : bs \in Encodings} \cup Hostile
        \cup SeqsUpTo(JunkBytes, MaxJunk)


\* the types a packet of the session is made of, and a few values of each
SessionTypes ==
    << TUnit, TBool, I16, TU64, TOption(U16), TBoundedInt(I8, -5, 5),
       TBoundedString(0, 3), TBoundedArray(U8, 0, 5), TArray(U8, 4) >>

RECURSIVE Sample(_)

Sample(ty) ==
    CASE ty.k \in {"unit", "bool"} -> Values(ty)
      [] ty.k = "int" -> {v \in IntValues(ty) : \A u \in IntValues(ty) : v <= u}
                         \cup {v \in IntValues(ty) : \A u \in IntValues(ty) : u <= v}
      [] ty.k = "u64" -> {<<1, 2, 3, 258>>}
      [] ty.k = "option" -> {<<>>} \cup {<<v>> : v \in Sample(ty.t)}
      [] ty.k = "bounded_int" -> {ty.min, ty.max, ty.max + 1}
      [] ty.k = "bounded_string" -> {<<>>, <<8364, 97>>, <<128512>>}
      [] ty.k = "array" -> {Rot(Pool(ty.t), ty.n, 0)}
      [] ty.k = "bounded_array" -> {<<>>, Rot(Pool(ty.t), 2, 0)}

\* [min, max] of the array codec, by the implementation that calls it
ArrayMin(ty) ==
    CASE ty.k = "vec" -> ToU(0)
      [] ty.k = "array" -> ToU(ty.n)
      [] ty.k = "bounded_array" -> ty.min

ArrayMax(ty) ==
    CASE ty.k = "vec" -> USIZE_MAX
      [] ty.k = "array" -> ToU(ty.n)
      [] ty.k = "bounded_array" -> ty.max

\* slices of () longer than any the model could hold element by element
UnitLens == {ToU(0), ToU(3), I32_MAX_U, <<0, 0, 32768, 0>>, USIZE_MAX}

UnitSliceTypes ==
    << TVec(TUnit), TBoundedArray(TUnit, 0, 5), TBoundedArray(TUnit, 4, 2),
       [k |-> "bounded_array", t |-> TUnit, min |-> ToU(1), max |-> USIZE_MAX] >>

\* Where a source may stand after a failed read: read_exact leaves the position
\* unspecified when the source runs out.
Left(res) ==
    IF res.st = "err" /\ res.e = "truncated" THEN {res.rest, <<>>} ELSE {res.rest}

-----------------------------------------------------------------------------
(* the state machine: pc is the caller's position, call the operation in     *)
(* progress, w the sink, r the unread source, log the values a session wrote *)
(* and has not yet read back, got the last result, loop the locals of the    *)
(* array loop in progress.                                                   *)

NoCall == [op |-> "none"]

NoResult == [st |-> "none"]

NoLoop == [i |-> 0]

Init ==
    /\ pc = "idle"
    /\ call = NoCall
    /\ w = <<>>
    /\ r = <<>>
    /\ log = <<>>
    /\ got = NoResult
    /\ loop = NoLoop

\* value.encode(&mut w) on an empty sink
EncodeCall(ty, v) ==
    /\ pc = "idle"
    /\ call' = [op |-> "encode", ty |-> ty, arg |-> v]
    /\ got' = Encode(ty, v)
    /\ w' = w \o got'.out
    /\ pc' = "encoded"
    /\ UNCHANGED <<r, log, loop>>

\* T::decode(&mut r) on what the encode wrote
DecodeBack ==
    /\ pc = "encoded"
    /\ got.st = "ok"
    /\ call' = [call EXCEPT !.op = "decode_back"]
    /\ got' = Decode(call.ty, w)
    /\ r' \in Left(got')
    /\ pc' = "returned"
    /\ UNCHANGED <<w, log, loop>>

\* T::decode(&mut r) on bytes from the network
DecodeCall(ty, bs) ==
    /\ pc = "idle"
    /\ call' = [op |-> "decode", ty |-> ty, arg |-> bs]
    /\ got' = Decode(ty, bs)
    /\ r' \in Left(got')
    /\ pc' = "returned"
    /\ UNCHANGED <<w, log, loop>>

\* encode of a slice of len unit values: every element encodes to nothing
EncodeUnitSlice(ty, len) ==
    /\ pc = "idle"
    /\ call' = [op |-> "encode_units", ty |-> ty, arg |-> len]
    /\ got' = encode_array_len(len, ArrayMin(ty), ArrayMax(ty))
    /\ w' = w \o got'.out
    /\ pc' = "returned"
    /\ UNCHANGED <<r, log, loop>>

\* a packet's next field is encoded into the shared sink
SessionEncode(ty, v) ==
    /\ pc \in {"idle", "writing"}
    /\ Len(log) < MaxItems
    /\ got' = Encode(ty, v)
    /\ w' = w \o got'.out
    /\ call' = [op |-> "session_encode", ty |-> ty, arg |-> v]
    /\ IF got'.st = "ok"
       THEN /\ log' = Append(log, [ty |-> ty, v |-> v, n |-> Len(got'.out)])
            /\ pc' = "writing"
       ELSE /\ log' = log
            /\ pc' = "returned"
    /\ UNCHANGED <<r, loop>>

\* the packet is sent: the reader's source holds what the sink holds
SessionSend ==
    /\ pc = "writing"
    /\ r' = w
    /\ pc' = "reading"
    /\ call' = NoCall
    /\ got' = NoResult
    /\ UNCHANGED <<w, log, loop>>

\* the packet's next field is decoded from the shared source
SessionDecode ==
    /\ pc = "reading"
    /\ log # <<>>
    /\ got' = Decode(Head(log).ty, r)
    /\ r' \in Left(got')
    /\ pc' = IF got'.st = "ok" THEN "reading" ELSE "returned"
    /\ call' = [op |-> "session_decode", ty |-> Head(log).ty, arg |-> Head(log).v,
                n |-> Head(log).n, src |-> r]
    /\ log' = Tail(log)
    /\ UNCHANGED <<w, loop>>

\* encode_array_bounded's return before its loop (p is not ok), or its entry
EncodeArrayEnter(p) ==
    /\ w' = w \o p.out
    /\ IF p.st = "ok"
       THEN /\ pc' = "encode_loop"
            /\ got' = NoResult
            /\ loop' = [i |-> 1]
       ELSE /\ pc' = "returned"
            /\ got' = p
            /\ loop' = loop

\* encode_array_bounded, to the start of its loop
EncodeArrayBegin(ty, v) ==
    /\ pc = "idle"
    /\ call' = [op |-> "encode_array", ty |-> ty, arg |-> v]
    /\ EncodeArrayEnter(encode_array_len(ToU(Len(v)), ArrayMin(ty), ArrayMax(ty)))
    /\ UNCHANGED <<r, log>>

\* the loop's turn gave e: the next turn, or the return of e's error
EncodeArrayTurn(e) ==
    /\ w' = e.out
    /\ IF e.st = "ok"
       THEN /\ loop' = [i |-> loop.i + 1]
            /\ UNCHANGED <<pc, got>>
       ELSE /\ got' = e
            /\ pc' = "returned"
            /\ loop' = loop

\* one turn of encode_array_bounded's loop, or its return
EncodeArrayStep ==
    /\ pc = "encode_loop"
    /\ IF loop.i > Len(call.arg)
       THEN /\ got' = EOk(w)
            /\ pc' = "returned"
            /\ UNCHANGED <<w, loop>>
       ELSE EncodeArrayTurn(encode_element(call.ty.t, call.arg[loop.i], w))
    /\ UNCHANGED <<call, r, log>>

\* decode_array_bounded's return before its loop (h is not ok), or its entry
DecodeArrayEnter(h) ==
    IF h.st = "ok"
    THEN /\ pc' = "decode_loop"
         /\ got' = NoResult
         /\ r' = h.rest
         /\ loop' = [i |-> 0, len |-> h.len, cap |-> h.cap, res |-> <<>>]
    ELSE /\ pc' = "returned"
         /\ got' = [st |-> h.st, e |-> h.e, val |-> <<>>, rest |-> h.rest]
         /\ r' \in Left(h)
         /\ loop' = loop

\* decode_array_bounded, to the start of its loop
DecodeArrayBegin(ty, bs) ==
    /\ pc = "idle"
    /\ call' = [op |-> "decode_array", ty |-> ty, arg |-> bs]
    /\ DecodeArrayEnter(decode_array_len(ty.t, ArrayMin(ty), ArrayMax(ty), bs))
    /\ UNCHANGED <<w, log>>

\* a loop that drops the element it could not decode and goes on
DecodeArrayTurn_skip(d) ==
    /\ r' \in Left(d)
    /\ loop' = [loop EXCEPT !.i = loop.i + 1,
                            !.res = IF d.st = "ok" THEN d.val[1] ELSE loop.res]
    /\ UNCHANGED <<pc, got>>

\* the loop's turn gave d: the next turn, or the return of d's error
DecodeArrayTurn(d) ==
    /\ r' \in Left(d)
    /\ IF d.st = "ok"
       THEN /\ loop' = [loop EXCEPT !.i = loop.i + 1, !.res = d.val[1]]
            /\ UNCHANGED <<pc, got>>
       ELSE /\ got' = d
            /\ pc' = "returned"
            /\ loop' = loop

\* one turn of decode_array_bounded's loop, or its return
DecodeArrayStep ==
    /\ pc = "decode_loop"
    /\ IF loop.i = loop.len
       THEN /\ got' = DOk(loop.res, r)
            /\ pc' = "returned"
            /\ UNCHANGED <<r, loop>>
       ELSE DecodeArrayTurn(decode_element(call.ty.t, r, loop.res))
    /\ UNCHANGED <<call, w, log>>

\* The caller is idle before every call it starts: the guard stands before the
\* choice of the call's arguments.
Next ==
    \/ /\ pc = "idle"
       /\ \E i \in DOMAIN Types : \E v \in Values(Types[i]) : EncodeCall(Types[i], v)
    \/ DecodeBack
    \/ /\ pc = "idle"
       /\ \E i \in DOMAIN ScalarTypes : \E bs \in Wire : DecodeCall(ScalarTypes[i], bs)
    \/ /\ pc = "idle"
       /\ \E i \in DOMAIN UnitSliceTypes : \E len \in UnitLens :
             EncodeUnitSlice(UnitSliceTypes[i], len)
    \/ /\ pc \in {"idle", "writing"}
       /\ \E i \in DOMAIN SessionTypes : \E v \in Sample(SessionTypes[i]) :
             SessionEncode(SessionTypes[i], v)
    \/ SessionSend
    \/ SessionDecode
    \/ /\ pc = "idle"
       /\ \E i \in DOMAIN ArrayTypes : \E v \in Values(ArrayTypes[i]) :
             EncodeArrayBegin(ArrayTypes[i], v)
    \/ EncodeArrayStep
    \/ /\ pc = "idle"
       /\ \E i \in DOMAIN ArrayTypes : \E bs \in Wire :
             DecodeArrayBegin(ArrayTypes[i], bs)
    \/ DecodeArrayStep

Spec == Init /\ [][Next]_vars

-----------------------------------------------------------------------------
(* properties *)

RECURSIVE Flat(_, _)

\* the encodings of the elements of s, one after the other
Flat(t, s) == IF s = <<>> THEN <<>> ELSE Encode(t, Head(s)).out \o Flat(t, Tail(s))

\* C1: a fixed-size array [T; N] is encoded as its N element encodings and
\* nothing else, and its decode consumes the N element encodings and nothing
\* else: no length prefix is written or read.
C1_FixedArrayHasNoPrefix ==
    /\ (call.op = "encode" /\ call.ty.k = "array" /\ got.st = "ok")
          => got.out = Flat(call.ty.t, call.arg)
    /\ (call.op = "decode_array" /\ call.ty.k = "array" /\ got.st = "ok")
          => Len(call.arg) - Len(r) = call.ty.n * size_of(call.ty.t)

\* C2 as amended: encoding None appends exactly 1 byte, and encoding Some(())
\* appends exactly 1 byte too: the flag, followed by the unit's zero bytes.
C2_OptionSizes ==
    (call.op = "encode" /\ call.ty.k = "option")
       => /\ Len(call.arg) = 0 => (got.st = "ok" /\ Len(w) = 1)
          /\ (Len(call.arg) = 1 /\ call.ty.t = TUnit) => (got.st = "ok" /\ Len(w) = 1)

\* C2 as claimed: encoding None appends exactly 1 byte and encoding Some(())
\* appends exactly 2 bytes.
C2_SomeUnitTakesTwoBytes ==
    (call.op = "encode" /\ call.ty.k = "option")
       => /\ Len(call.arg) = 0 => (got.st = "ok" /\ Len(w) = 1)
          /\ (Len(call.arg) = 1 /\ call.ty.t = TUnit) => (got.st = "ok" /\ Len(w) = 2)

\* Some(()) has been encoded
C2_SomeUnitEncoded ==
    /\ call.op = "encode"
    /\ call.ty.k = "option"
    /\ call.ty = TOption(TUnit)
    /\ Len(call.arg) = 1
    /\ got.st = "ok"

InBounds(ty, v) == ty.min <= v /\ v <= ty.max

\* C3: for BoundedInt<T, MIN, MAX> with MIN <= MAX, encode of v succeeds exactly
\* when MIN <= v <= MAX; decode of bytes holding the primitive value v succeeds
\* exactly when MIN <= v <= MAX, and then returns v itself, which is in bounds.
C3_BoundedIntBounds ==
    /\ (call.op = "encode" /\ call.ty.k = "bounded_int" /\ call.ty.min <= call.ty.max)
          => /\ got.st = "ok" <=> InBounds(call.ty, call.arg)
             /\ got.st = "ok" => got.out = BigEndianBytes(call.arg, call.ty.t.width)
    /\ (/\ call.op = "decode"
        /\ call.ty.k = "bounded_int"
        /\ call.ty.min <= call.ty.max
        /\ Len(call.arg) >= call.ty.t.width)
          => LET v == BigEndianValue(Take(call.arg, call.ty.t.width), call.ty.t.signed)
             IN /\ got.st = "ok" <=> InBounds(call.ty, v)
                /\ got.st = "ok" => (got.val = <<v>> /\ InBounds(call.ty, got.val[1]))
                /\ got.st # "ok" => (got.st = "err" /\ got.e = "bounds")

\* a value on the wire equal to MIN has been decoded
C3_DecodedAtMin ==
    /\ call.op = "decode"
    /\ call.ty.k = "bounded_int"
    /\ call.ty = TBoundedInt(I8, -5, 5)
    /\ got.st = "ok"
    /\ got.val = <<-5>>

\* C9: decoding a bool gives false for the byte 0, true for the byte 1 and an
\* error for every other byte; an Option whose flag byte is neither 0 nor 1
\* fails too, with only the flag byte read.
C9_BoolIsStrict ==
    /\ (call.op = "decode" /\ call.ty = TBool /\ call.arg # <<>>)
          => /\ call.arg[1] = 0 => (got.st = "ok" /\ got.val = <<FALSE>>)
             /\ call.arg[1] = 1 => (got.st = "ok" /\ got.val = <<TRUE>>)
             /\ call.arg[1] >= 2 => (got.st = "err" /\ got.e = "malformed")
             /\ got.st = "ok" => r = Tail(call.arg)
    /\ (call.op = "decode" /\ call.ty.k = "option" /\ call.arg # <<>>)
          => (call.arg[1] >= 2
                => (got.st = "err" /\ got.e = "malformed" /\ r = Tail(call.arg)))

\* the byte 2 has been refused as a bool
C9_TwoRefused ==
    /\ call.op = "decode"
    /\ call.ty = TBool
    /\ call.arg = <<2>>
    /\ got.st = "err"

\* the number of chars of valid UTF-8 bytes: the bytes that continue no char
CountChars(bs) == Cardinality({i \in DOMAIN bs : ~IsCont(bs[i])})

CharWidth(c) == IF c < 128 THEN 1 ELSE IF c < 2048 THEN 2 ELSE IF c < 65536 THEN 3 ELSE 4

RECURSIVE Utf8Len(_)

Utf8Len(s) == IF s = <<>> THEN 0 ELSE CharWidth(Head(s)) + Utf8Len(Tail(s))

\* C4: with bounds [MIN, MAX], MIN <= MAX, a string is encoded exactly when its
\* char count is in [MIN, MAX], behind a VarInt prefix equal to its UTF-8 byte
\* length; bytes holding a well-formed string are decoded exactly when its char
\* count is in [MIN, MAX]; a prefix outside [MIN, 4 * MAX] is a bounds error, and
\* one inside it goes on to the check of the char count.
C4_StringBoundsCountChars ==
    /\ (call.op = "encode" /\ call.ty.k = "bounded_string" /\ ULe(call.ty.min, call.ty.max))
          => /\ got.st = "ok" <=> /\ AsI32(call.ty.min) <= Len(call.arg)
                                  /\ Len(call.arg) <= AsI32(call.ty.max)
             /\ got.st = "ok" =>
                   /\ VarInt_decode(got.out).val = <<Utf8Len(call.arg)>>
                   /\ Len(VarInt_decode(got.out).rest) = Utf8Len(call.arg)
                   /\ got.out = VarIntBytes(Utf8Len(call.arg)) \o as_bytes(call.arg)
             /\ got.st # "ok" => (got.st = "err" /\ got.e = "bounds" /\ w = <<>>)
    /\ (call.op = "decode" /\ call.ty.k = "bounded_string" /\ ULe(call.ty.min, call.ty.max))
          => LET p == VarInt_decode(call.arg)
                 n == p.val[1]
                 min == AsI32(call.ty.min)
                 max == AsI32(call.ty.max)
                 bytes == Take(p.rest, n)
             IN (p.st = "ok" /\ n >= 0)
                   => /\ (n < min \/ n > 4 * max) => (got.st = "err" /\ got.e = "bounds")
                      /\ (Len(p.rest) >= n /\ from_utf8(bytes).ok)
                            => /\ got.st = "ok" <=> /\ min <= CountChars(bytes)
                                                    /\ CountChars(bytes) <= max
                               /\ got.st = "ok" =>
                                     /\ got.val = <<from_utf8(bytes).chars>>
                                     /\ r = Drop(p.rest, n)
                               /\ got.st # "ok" => (got.st = "err" /\ got.e = "bounds")

\* three 3-byte chars have been encoded under the bounds [0, 3]
C4_ThreeWideCharsEncoded ==
    /\ call.op = "encode"
    /\ call.ty.k = "bounded_string"
    /\ call.ty = TBoundedString(0, 3)
    /\ call.arg = <<8364, 8364, 8364>>
    /\ got.st = "ok"
    /\ Len(w) = 10

Larger(a, b) == IF a > b THEN a ELSE b

Smaller(a, b) == IF a < b THEN a ELSE b

\* the fewest bytes an element of type t takes on the wire
WireMin(t) ==
    CASE t.k = "int" -> t.width
      [] t.k = "u64" -> 8
      [] t.k = "bounded_int" -> t.t.width
      [] t.k = "option" -> 1

\* C5: the capacity decode_array_bounded reserves before it decodes an element is
\* min(len, MAX_PACKET_SIZE / max(size_of::<T>(), 1)), whatever the prefix len
\* claims; and a decode whose accepted prefix claims more elements than the bytes
\* behind it can hold never succeeds: with fixed-width integer elements it ends
\* in a truncated-input error.
C5_CapacityIsBounded ==
    /\ (call.op = "decode_array" /\ "cap" \in DOMAIN loop)
          => /\ loop.len = VarInt_decode(call.arg).val[1]
             /\ loop.cap = Smaller(loop.len,
                                   MAX_PACKET_SIZE \div Larger(size_of(call.ty.t), 1))
             /\ loop.cap <= MAX_PACKET_SIZE \div Larger(size_of(call.ty.t), 1)
             /\ Len(loop.res) <= loop.len
    /\ (call.op = "decode_array" /\ pc = "returned")
          => LET p == VarInt_decode(call.arg)
             IN (p.st = "ok" /\ p.val[1] > Len(p.rest) \div WireMin(call.ty.t))
                   => /\ got.st # "ok"
                      /\ ("cap" \in DOMAIN loop /\ call.ty.t.k \in {"int", "u64"})
                            => (got.st = "err" /\ got.e = "truncated")

\* 10,000,000 eight-byte elements were claimed by a prefix with 10 bytes behind it
C5_HostilePrefixRefused ==
    /\ call.op = "decode_array"
    /\ pc = "returned"
    /\ call.ty.k = "vec"
    /\ call.ty = TVec(TU64)
    /\ call.arg = VarIntBytes(10000000) \o [i \in 1..10 |-> 0]
    /\ loop.cap = 262143
    /\ got.e = "truncated"

IsSuffix(s, t) == Len(s) <= Len(t) /\ s = Drop(t, Len(t) - Len(s))

\* C6: for BoundedArray<T, MIN, MAX> with MIN <= MAX, encode fails when the count
\* is outside [MIN, MAX] or above i32::MAX and otherwise writes the VarInt count
\* and then the elements in order; decode fails when the count is negative or
\* outside [MIN, MAX], and what it returns has exactly count elements, in the
\* order of the wire; an array within its bounds round-trips.
C6_BoundedArrayBounds ==
    /\ (call.op = "encode" /\ call.ty.k = "bounded_array" /\ ULe(call.ty.min, call.ty.max))
          => IF ~RangeContains(call.ty.min, call.ty.max, ToU(Len(call.arg)))
             THEN got.st = "err" /\ got.e = "bounds" /\ w = <<>>
             ELSE (\A i \in DOMAIN call.arg : Encode(call.ty.t, call.arg[i]).st = "ok")
                     => /\ got.st = "ok"
                        /\ w = VarIntBytes(Len(call.arg)) \o Flat(call.ty.t, call.arg)
    /\ (call.op = "encode_units" /\ ULe(ArrayMin(call.ty), ArrayMax(call.ty)))
          => IF \/ ~RangeContains(ArrayMin(call.ty), ArrayMax(call.ty), call.arg)
                \/ ~ULe(call.arg, I32_MAX_U)
             THEN got.st = "err" /\ w = <<>>
             ELSE got.st = "ok" /\ w = VarIntBytes(AsI32(call.arg))
    /\ (/\ call.op = "decode_array"
        /\ pc = "returned"
        /\ call.ty.k = "bounded_array"
        /\ ULe(call.ty.min, call.ty.max))
          => LET p == VarInt_decode(call.arg)
                 n == p.val[1]
             IN /\ p.st # "ok" => got.st = "err"
                /\ p.st = "ok" =>
                      IF n < 0 \/ ~RangeContains(call.ty.min, call.ty.max, ToU(n))
                      THEN got.st = "err" /\ got.e = "bounds"
                      ELSE got.st = "ok" =>
                              /\ Len(got.val[1]) = n
                              /\ IsSuffix(r, p.rest)
                              /\ Flat(call.ty.t, got.val[1])
                                    = Take(p.rest, Len(p.rest) - Len(r))
    /\ (call.op = "decode_back" /\ call.ty.k = "bounded_array")
          => (got.st = "ok" /\ got.val = <<call.arg>> /\ r = <<>>)

\* an array of 5 elements has gone through encode and decode under [0, 5]
C6_FiveElementsRoundTripped ==
    /\ call.op = "decode_back"
    /\ call.ty.k = "bounded_array"
    /\ call.ty = TBoundedArray(U8, 0, 5)
    /\ Len(call.arg) = 5
    /\ got.st = "ok"

\* C7: values encoded one after the other into one stream are decoded, by the
\* same types in the same order, to the same values; each decode consumes exactly
\* the bytes its encode appended, and none are left after the last.
C7_RoundTrip ==
    /\ call.op = "session_decode"
          => /\ got.st = "ok"
             /\ got.val = <<call.arg>>
             /\ r = Drop(call.src, call.n)
    /\ (pc = "reading" /\ log = <<>>) => r = <<>>
    /\ call.op = "decode_back"
          => (got.st = "ok" /\ got.val = <<call.arg>> /\ r = <<>>)

\* the second value of a packet has been decoded, and it is a string
C7_SecondFieldDecoded ==
    /\ call.op = "session_decode"
    /\ log = <<>>
    /\ call.ty.k = "bounded_string"
    /\ Len(call.arg) = 2
    /\ Len(call.src) < Len(w)
    /\ got.st = "ok"

BadRange(ty) ==
    CASE ty.k = "bounded_int" -> ty.min > ty.max
      [] ty.k \in {"bounded_string", "bounded_array"} -> ULt(ty.max, ty.min)
      [] OTHER -> FALSE

\* C8: every encode and decode of a bounded wrapper declared with MIN > MAX
\* panics; none returns an error.
C8_BadRangePanics ==
    (/\ call.op \in {"encode", "decode", "encode_array", "decode_array", "encode_units"}
     /\ BadRange(call.ty))
       => got.st = "panic"

\* one turn of the decode loop, as the element's decode decides it
C10_DecodeTurn(d) ==
    IF d.st = "ok"
    THEN /\ pc' = "decode_loop"
         /\ loop' = [loop EXCEPT !.i = loop.i + 1, !.res = Append(loop.res, d.val[1])]
         /\ r' = d.rest
         /\ got' = got
    ELSE /\ pc' = "returned"
         /\ got'.st = d.st
         /\ got'.st = "err" => got'.e = d.e
         /\ got'.val = <<>>
         /\ loop' = loop
         /\ IsSuffix(r', d.rest)
         /\ (got'.st = "err" /\ got'.e # "truncated") => r' = d.rest

\* one turn of the encode loop, as the element's encode decides it
C10_EncodeTurn(e) ==
    /\ w' = w \o e.out
    /\ IF e.st = "ok"
       THEN pc' = "encode_loop" /\ loop' = [loop EXCEPT !.i = loop.i + 1] /\ got' = got
       ELSE pc' = "returned" /\ got'.st = e.st /\ loop' = loop

\* the loops between two turns: what was decoded or written so far is the
\* elements before index loop.i, in order, and nothing of those after it
C10_InOrder ==
    /\ (call.op = "decode_array" /\ "res" \in DOMAIN loop)
          => LET p == VarInt_decode(call.arg)
             IN /\ Len(loop.res) = loop.i
                /\ pc = "decode_loop" =>
                      /\ IsSuffix(r, p.rest)
                      /\ Flat(call.ty.t, loop.res) = Take(p.rest, Len(p.rest) - Len(r))
                /\ (pc = "returned" /\ got.st = "ok") => got.val = <<loop.res>>
                /\ (pc = "returned" /\ got.st = "err") =>
                      /\ got.val = <<>>
                      /\ loop.i < loop.len
                      /\ (got.e # "truncated" /\ WireMin(call.ty.t) = 1 /\ call.ty.t.k # "option")
                            => Len(r) = Len(p.rest) - (loop.i + 1)
    /\ (call.op = "encode_array" /\ pc \in {"encode_loop", "returned"} /\ loop.i >= 1)
          => /\ loop.i <= Len(call.arg) + 1
             /\ \A j \in 1..(loop.i - 1) : Encode(call.ty.t, call.arg[j]).st = "ok"
             /\ (pc = "encode_loop" \/ got.st = "ok")
                   => w = VarIntBytes(Len(call.arg))
                             \o Flat(call.ty.t, SubSeq(call.arg, 1, loop.i - 1))
             /\ (pc = "returned" /\ got.st = "err")
                   => /\ Encode(call.ty.t, call.arg[loop.i]).st = "err"
                      /\ w = VarIntBytes(Len(call.arg))
                                \o Flat(call.ty.t, SubSeq(call.arg, 1, loop.i - 1))
                                \o Encode(call.ty.t, call.arg[loop.i]).out

C10_Step ==
    /\ (pc = "decode_loop" /\ loop.i < loop.len) => C10_DecodeTurn(Decode(call.ty.t, r))
    /\ (pc = "decode_loop" /\ loop.i >= loop.len)
          => (pc' = "returned" /\ got'.st = "ok" /\ got'.val = <<loop.res>> /\ r' = r)
    /\ (pc = "encode_loop" /\ loop.i <= Len(call.arg))
          => C10_EncodeTurn(Encode(call.ty.t, call.arg[loop.i]))
    /\ (pc = "encode_loop" /\ loop.i > Len(call.arg))
          => (pc' = "returned" /\ got'.st = "ok" /\ w' = w)
    /\ pc = "returned" => FALSE

\* C10: the array loops take the elements in index order and stop at the first
\* that fails: the call returns that element's error at once, it decodes or
\* encodes no later element, consumes no byte of a later element, and returns no
\* partial collection.
C10_FailFast == []C10_InOrder /\ [][C10_Step]_vars

\* the second of three elements was refused, and the third was left unread
C10_StoppedAtSecond ==
    /\ call.op = "decode_array"
    /\ pc = "returned"
    /\ got.st = "err"
    /\ got.e = "bounds"
    /\ loop.i = 1
    /\ loop.len = 3
    /\ Len(r) = 1

=============================================================================
